---- MODULE Spec2Model ----
(***************************************************************************)
(* Model of src/src/app.py: the capability registry, the pending           *)
(* registration requests and the handlers that read and change them.       *)
(* Under Spec every handler is one atomic action; the outcome of the last  *)
(* call (its handler, HTTP status, detail and result) is kept in `last`.   *)
(* Under SpecConc the handlers that check and then change the shared data  *)
(* run as threads whose steps interleave; `inflight` holds each thread's   *)
(* position and locals.                                                    *)
(***************************************************************************)
EXTENDS Integers, Sequences, FiniteSets, TLC

VARIABLES capabilities, pending_registration_requests, session, last, inflight

vars == <<capabilities, pending_registration_requests, session, last, inflight>>

(* ------------------------------ bounds --------------------------------- *)

\* Longest roster the model lets a handler build (the seeds hold 2 entries).
MaxRoster == 4

\* Longest pending list the model lets a handler build.
MaxPending == 3

(* ------------------------------ inputs --------------------------------- *)

Clients == {"browser1"}

\* datetime.now(timezone.utc).isoformat(): created_at is stored and never
\* read by a handler, so one value stands for the clock.
Timestamps == {"2026-01-01T00:00:00+00:00"}

\* Two seeded capabilities of different practice areas, and a name that is
\* not in the registry.
CapabilityInputs == {"Cloud Architecture", "Digital Strategy", "Quantum Computing"}

EmailInputs == {"alice.smith@slalom.com", "carol@x.com", "Carol@X.com"}

\* "CAROL" is the stored username "carol" in another case; "nobody" is not
\* in the credential store; the last five have stored hashes that cannot be
\* verified.
UsernameInputs ==
    {"lead_all", "lead_tech", "CAROL", "vendor", "nobody",
     "legacy", "broken", "zero", "text", "accent"}

PasswordInputs == {"secret", "guess"}

\* str.lower() on the strings the model uses.
lower(s) ==
    CASE s = "Carol@X.com" -> "carol@x.com"
      [] s = "CAROL" -> "carol"
      [] OTHER -> s

(* --------------------------- credential store -------------------------- *)

\* hashlib.pbkdf2_hmac("sha256", password, salt, iterations).hex(): an
\* injective stand-in for the hex digest, which is ASCII text.
pbkdf2_hmac(password, salt, iterations) ==
    [ascii |-> TRUE, hex |-> <<"sha256", password, salt, iterations>>]

\* A stored digest that holds a non-ASCII character.
NonAsciiDigest == [ascii |-> FALSE, hex |-> <<"sha256", "", "", 0>>]

\* stored_hash.split("$", 3) of a well-formed hash of "secret".
HashOf(salt) == <<"pbkdf2_sha256", "1000", salt, pbkdf2_hmac("secret", salt, 1000)>>

\* int(iterations) on the strings the model uses: <<n>>, or <<>> for the
\* ValueError of a string that is no integer.
int(text) ==
    CASE text = "1000" -> <<1000>>
      [] text = "0" -> <<0>>
      [] OTHER -> <<>>

\* load_user_credentials(): the users of practice_leads.json. The first
\* four can log in with "secret"; then come a hash of another algorithm, a
\* hash of three fields, an iteration count of 0, an iteration count that
\* is no integer, and a digest that is not ASCII.
load_user_credentials ==
    << [username |-> "lead_all", email |-> "lead.all@slalom.com",
        role |-> "practice_lead", practice_areas |-> {"*"},
        password_hash |-> HashOf("s1")],
       [username |-> "lead_tech", email |-> "lead.tech@slalom.com",
        role |-> "practice_lead", practice_areas |-> {"Technology"},
        password_hash |-> HashOf("s2")],
       [username |-> "carol", email |-> "carol@x.com",
        role |-> "consultant", practice_areas |-> {},
        password_hash |-> HashOf("s3")],
       [username |-> "vendor", email |-> "vendor@x.com",
        role |-> "contractor", practice_areas |-> {},
        password_hash |-> HashOf("s4")],
       [username |-> "legacy", email |-> "legacy@x.com",
        role |-> "practice_lead", practice_areas |-> {"*"},
        password_hash |-> <<"md5", "1000", "s5", pbkdf2_hmac("secret", "s5", 1000)>>],
       [username |-> "broken", email |-> "broken@x.com",
        role |-> "practice_lead", practice_areas |-> {"*"},
        password_hash |-> <<"pbkdf2_sha256", "1000", "s6">>],
       [username |-> "zero", email |-> "zero@x.com",
        role |-> "practice_lead", practice_areas |-> {"*"},
        password_hash |-> <<"pbkdf2_sha256", "0", "s7", pbkdf2_hmac("secret", "s7", 0)>>],
       [username |-> "text", email |-> "text@x.com",
        role |-> "practice_lead", practice_areas |-> {"*"},
        password_hash |-> <<"pbkdf2_sha256", "many", "s8", pbkdf2_hmac("secret", "s8", 0)>>],
       [username |-> "accent", email |-> "accent@x.com",
        role |-> "practice_lead", practice_areas |-> {"*"},
        password_hash |-> <<"pbkdf2_sha256", "1000", "s9", NonAsciiDigest>>] >>

\* A verify_password that compares the candidate digest with itself.
verify_password_no_compare(stored_hash, provided_password) ==
    IF Len(stored_hash) # 4 THEN "Invalid credential configuration"
    ELSE IF stored_hash[1] # "pbkdf2_sha256" THEN "Unsupported password hash algorithm"
    ELSE IF int(stored_hash[2]) = <<>> THEN "Internal Server Error"
    ELSE IF int(stored_hash[2])[1] < 1 THEN "Internal Server Error"
    ELSE IF ~stored_hash[4].ascii THEN "Internal Server Error"
    ELSE "match"

\* verify_password: "match" is True and "mismatch" False; any other value
\* is the detail of the status 500 the call ends in: an HTTPException of
\* lines 145 and 148, or the ValueError of int() and of pbkdf2_hmac (an
\* iteration count below 1) and the TypeError of compare_digest (a
\* non-ASCII digest), which nothing catches.
verify_password(stored_hash, provided_password) ==
    IF Len(stored_hash) # 4 THEN "Invalid credential configuration"
    ELSE IF stored_hash[1] # "pbkdf2_sha256" THEN "Unsupported password hash algorithm"
    ELSE IF int(stored_hash[2]) = <<>> THEN "Internal Server Error"
    ELSE IF int(stored_hash[2])[1] < 1 THEN "Internal Server Error"
    ELSE IF ~stored_hash[4].ascii THEN "Internal Server Error"
    ELSE IF pbkdf2_hmac(provided_password, stored_hash[3], int(stored_hash[2])[1])
                = stored_hash[4]
         THEN "match"
         ELSE "mismatch"

\* get_user_by_username: the first user whose username matches, ignoring
\* case, as a sequence of length at most 1 (<<>> is None).
get_user_by_username(username) ==
    LET users == load_user_credentials
        name == lower(username)
        hits == {i \in DOMAIN users : lower(users[i].username) = name}
    IN  IF hits = {} THEN <<>>
        ELSE <<users[CHOOSE i \in hits : \A j \in hits : i <= j]>>

(* ------------------------------ helpers -------------------------------- *)

\* A removal that drops the head of the list whatever x is.
ListRemoveHead(seq, x) == IF seq = <<>> THEN seq ELSE Tail(seq)

\* list.remove(x): drops the first element equal to x.
ListRemove(seq, x) ==
    LET idx == {i \in 1..Len(seq) : seq[i] = x}
        first == CHOOSE i \in idx : \A j \in idx : i <= j
    IN  IF idx = {} THEN seq
        ELSE [k \in 1..(Len(seq) - 1) |-> IF k < first THEN seq[k] ELSE seq[k + 1]]

\* request.session.get(SESSION_USER_KEY): {} when the key is absent.
get_authenticated_user(c) == session[c]

SessionUser(c) == CHOOSE user \in session[c] : TRUE

\* A permission check that looks at the role alone.
has_practice_area_permission_role_only(user, capability_name) ==
    capability_name \in DOMAIN capabilities /\ user.role = "practice_lead"

has_practice_area_permission(user, capability_name) ==
    IF capability_name \notin DOMAIN capabilities THEN FALSE
    ELSE IF user.role # "practice_lead" THEN FALSE
    ELSE IF "*" \in user.practice_areas THEN TRUE
    ELSE capabilities[capability_name].practice_area \in user.practice_areas

\* find_pending_request comparing the emails exactly.
find_pending_request_exact(capability_name, email) ==
    LET found == SelectSeq(pending_registration_requests,
                           LAMBDA request : /\ request.capability_name = capability_name
                                            /\ request.email = email)
    IN  IF found = <<>> THEN <<>> ELSE <<Head(found)>>

\* The first pending request for (capability_name, email), as a sequence of
\* length at most 1 (<<>> is None).
find_pending_request(capability_name, email) ==
    LET found == SelectSeq(pending_registration_requests,
                           LAMBDA request : /\ request.capability_name = capability_name
                                            /\ lower(request.email) = lower(email))
    IN  IF found = <<>> THEN <<>> ELSE <<Head(found)>>

\* is_consultant_registered comparing the emails exactly.
is_consultant_registered_exact(capability, email) ==
    \E i \in 1..Len(capability.consultants) : capability.consultants[i] = email

is_consultant_registered(capability, email) ==
    \E i \in 1..Len(capability.consultants) :
        lower(capability.consultants[i]) = lower(email)

\* A removal that looks for the email exactly as given.
remove_consultant_exact(capability, email) ==
    ListRemove(capability.consultants, email)

\* remove_consultant: the roster without the first entry that matches email
\* ignoring case; the roster itself when there is none (the code raises 400).
remove_consultant(capability, email) ==
    LET idx == {i \in 1..Len(capability.consultants) :
                    lower(capability.consultants[i]) = lower(email)}
        first == CHOOSE i \in idx : \A j \in idx : i <= j
    IN  IF idx = {} THEN capability.consultants
        ELSE ListRemove(capability.consultants, capability.consultants[first])

\* An append that stores the email in lower case.
append_consultant_lowered(capability, email) ==
    Append(capability.consultants, lower(email))

\* capability["consultants"].append(email)
append_consultant(capability, email) == Append(capability.consultants, email)

\* A self check that lets every target email through.
requests_for_self_any(user, email) == TRUE

\* Line 283: the consultant asks for their own email (ignoring case).
requests_for_self(user, email) == lower(user.email) = lower(email)

(* ------------------------------- threads ------------------------------- *)

\* The threads that run handlers whose steps interleave.
Threads == {"t1", "t2"}

\* A thread that runs no handler.
Idle == [pc |-> "idle"]

(* ------------------------------ responses ------------------------------ *)

ResponseWith(op, status, detail, result) ==
    [op |-> op, status |-> status, detail |-> detail, result |-> result]

Response(op, status, detail) == ResponseWith(op, status, detail, <<>>)

\* raise HTTPException(status, detail): nothing but the response changes.
Raise(op, status, detail) ==
    /\ last' = Response(op, status, detail)
    /\ UNCHANGED <<capabilities, pending_registration_requests, session, inflight>>

(* ------------------------------- Init ---------------------------------- *)

Init ==
    /\ capabilities =
         [n \in {"Cloud Architecture", "Digital Strategy"} |->
            IF n = "Cloud Architecture"
            THEN [practice_area |-> "Technology",
                  consultants |-> <<"alice.smith@slalom.com", "bob.johnson@slalom.com">>]
            ELSE [practice_area |-> "Strategy",
                  consultants |-> <<"liam.anderson@slalom.com", "noah.martinez@slalom.com">>]]
    /\ pending_registration_requests = <<>>
    /\ session = [c \in Clients |-> {}]
    /\ last = Response("start", 0, "")
    /\ inflight = [t \in Threads |-> Idle]

(* ------------------------------ handlers ------------------------------- *)

\* user and verdict are bound as values, each computed once.
login(c, username, password) ==
    \E user \in {get_user_by_username(username)} :
    \E verdict \in {IF user = <<>> THEN "mismatch"
                    ELSE verify_password(user[1].password_hash, password)} :
        IF verdict \notin {"match", "mismatch"}
        THEN Raise("login", 500, verdict)
        ELSE IF verdict = "mismatch"
        THEN Raise("login", 401, "Invalid username or password")
        ELSE /\ session' = [session EXCEPT ![c] =
                              {[username |-> user[1].username,
                                email |-> user[1].email,
                                role |-> user[1].role,
                                practice_areas |-> user[1].practice_areas]}]
             /\ last' = Response("login", 200, "Login successful")
             /\ UNCHANGED <<capabilities, pending_registration_requests, inflight>>

\* A logout that pops another key and so leaves the session as it is.
logout_wrong_key(c) ==
    /\ last' = Response("logout", 200, "Logged out")
    /\ UNCHANGED <<capabilities, pending_registration_requests, session, inflight>>

logout(c) ==
    /\ session' = [session EXCEPT ![c] = {}]
    /\ last' = Response("logout", 200, "Logged out")
    /\ UNCHANGED <<capabilities, pending_registration_requests, inflight>>

register_for_capability(c, capability_name, email) ==
    IF get_authenticated_user(c) = {}
    THEN Raise("register", 401, "Please log in first")
    ELSE IF capability_name \notin DOMAIN capabilities
    THEN Raise("register", 404, "Capability not found")
    ELSE IF is_consultant_registered(capabilities[capability_name], email)
    THEN Raise("register", 400,
               "Consultant is already registered for this capability")
    ELSE IF SessionUser(c).role = "consultant"
    THEN IF ~requests_for_self(SessionUser(c), email)
         THEN Raise("register", 403,
                    "Consultants can only request registration for themselves")
         ELSE IF find_pending_request(capability_name, email) # <<>>
         THEN Raise("register", 400,
                    "A pending registration request already exists")
         ELSE /\ Len(pending_registration_requests) < MaxPending
              /\ \E now \in Timestamps :
                     pending_registration_requests' =
                         Append(pending_registration_requests,
                                [capability_name |-> capability_name,
                                 email |-> email,
                                 requested_by |-> SessionUser(c).username,
                                 created_at |-> now])
              /\ last' = Response("register", 200,
                                  "Registration request submitted")
              /\ UNCHANGED <<capabilities, session, inflight>>
    ELSE IF SessionUser(c).role = "practice_lead"
    THEN IF ~has_practice_area_permission(SessionUser(c), capability_name)
         THEN Raise("register", 403,
                    "You do not have permissions for this capability's practice area")
         ELSE /\ Len(capabilities[capability_name].consultants) < MaxRoster
              /\ capabilities' =
                     [capabilities EXCEPT ![capability_name].consultants =
                          append_consultant(capabilities[capability_name], email)]
              /\ last' = Response("register", 200, "Registered")
              /\ UNCHANGED <<pending_registration_requests, session, inflight>>
    ELSE Raise("register", 403, "Unsupported user role")

\* require_practice_lead: 0 when the caller is an authenticated practice
\* lead, else the status of the HTTPException it raises.
require_practice_lead(c) ==
    IF get_authenticated_user(c) = {} THEN 401
    ELSE IF SessionUser(c).role # "practice_lead" THEN 403
    ELSE 0

RequirePracticeLeadDetail(status) ==
    IF status = 401 THEN "Please log in first"
    ELSE "Practice lead permissions are required"

unregister_from_capability(c, capability_name, email) ==
    IF require_practice_lead(c) # 0
    THEN Raise("unregister", require_practice_lead(c),
               RequirePracticeLeadDetail(require_practice_lead(c)))
    ELSE IF capability_name \notin DOMAIN capabilities
    THEN Raise("unregister", 404, "Capability not found")
    ELSE IF ~has_practice_area_permission(SessionUser(c), capability_name)
    THEN Raise("unregister", 403,
               "You do not have permissions for this capability's practice area")
    ELSE IF ~is_consultant_registered(capabilities[capability_name], email)
    THEN Raise("unregister", 400,
               "Consultant is not registered for this capability")
    ELSE /\ capabilities' =
                [capabilities EXCEPT ![capability_name].consultants =
                     remove_consultant(capabilities[capability_name], email)]
         /\ last' = Response("unregister", 200, "Unregistered")
         /\ UNCHANGED <<pending_registration_requests, session, inflight>>

\* An approval that appends without looking at the roster.
approved_consultants_unchecked(capability, email) == append_consultant(capability, email)

\* Lines 379-381 of approve_registration_request: the roster after approval.
approved_consultants(capability, email) ==
    IF ~is_consultant_registered(capability, email)
    THEN append_consultant(capability, email)
    ELSE capability.consultants

\* An approval that writes the roster before it looks for the request.
approve_registration_request_append_first(c, capability_name, email) ==
    IF require_practice_lead(c) # 0
    THEN Raise("approve", require_practice_lead(c),
               RequirePracticeLeadDetail(require_practice_lead(c)))
    ELSE IF capability_name \notin DOMAIN capabilities
    THEN Raise("approve", 404, "Capability not found")
    ELSE IF ~has_practice_area_permission(SessionUser(c), capability_name)
    THEN Raise("approve", 403,
               "You do not have permissions for this capability's practice area")
    ELSE /\ \/ is_consultant_registered(capabilities[capability_name], email)
            \/ Len(capabilities[capability_name].consultants) < MaxRoster
         /\ capabilities' =
                [capabilities EXCEPT ![capability_name].consultants =
                     approved_consultants(capabilities[capability_name], email)]
         /\ IF find_pending_request(capability_name, email) = <<>>
            THEN /\ last' = Response("approve", 404,
                                     "Pending registration request not found")
                 /\ UNCHANGED pending_registration_requests
            ELSE /\ pending_registration_requests' =
                        ListRemove(pending_registration_requests,
                                   find_pending_request(capability_name, email)[1])
                 /\ last' = Response("approve", 200, "Approved")
         /\ UNCHANGED <<session, inflight>>

approve_registration_request(c, capability_name, email) ==
    IF require_practice_lead(c) # 0
    THEN Raise("approve", require_practice_lead(c),
               RequirePracticeLeadDetail(require_practice_lead(c)))
    ELSE IF capability_name \notin DOMAIN capabilities
    THEN Raise("approve", 404, "Capability not found")
    ELSE IF ~has_practice_area_permission(SessionUser(c), capability_name)
    THEN Raise("approve", 403,
               "You do not have permissions for this capability's practice area")
    ELSE IF find_pending_request(capability_name, email) = <<>>
    THEN Raise("approve", 404,
               "Pending registration request not found")
    ELSE /\ \/ is_consultant_registered(capabilities[capability_name], email)
            \/ Len(capabilities[capability_name].consultants) < MaxRoster
         /\ capabilities' =
                [capabilities EXCEPT ![capability_name].consultants =
                     approved_consultants(capabilities[capability_name], email)]
         /\ pending_registration_requests' =
                ListRemove(pending_registration_requests,
                           find_pending_request(capability_name, email)[1])
         /\ last' = Response("approve", 200, "Approved")
         /\ UNCHANGED <<session, inflight>>

\* A reject that asks for the permission before it looks the capability up.
reject_registration_request_permission_first(c, capability_name, email) ==
    IF require_practice_lead(c) # 0
    THEN Raise("reject", require_practice_lead(c),
               RequirePracticeLeadDetail(require_practice_lead(c)))
    ELSE IF ~has_practice_area_permission(SessionUser(c), capability_name)
    THEN Raise("reject", 403,
               "You do not have permissions for this capability's practice area")
    ELSE IF capability_name \notin DOMAIN capabilities
    THEN Raise("reject", 404, "Capability not found")
    ELSE IF find_pending_request(capability_name, email) = <<>>
    THEN Raise("reject", 404,
               "Pending registration request not found")
    ELSE /\ pending_registration_requests' =
                ListRemove(pending_registration_requests,
                           find_pending_request(capability_name, email)[1])
         /\ last' = Response("reject", 200, "Rejected")
         /\ UNCHANGED <<capabilities, session, inflight>>

reject_registration_request(c, capability_name, email) ==
    IF require_practice_lead(c) # 0
    THEN Raise("reject", require_practice_lead(c),
               RequirePracticeLeadDetail(require_practice_lead(c)))
    ELSE IF capability_name \notin DOMAIN capabilities
    THEN Raise("reject", 404, "Capability not found")
    ELSE IF ~has_practice_area_permission(SessionUser(c), capability_name)
    THEN Raise("reject", 403,
               "You do not have permissions for this capability's practice area")
    ELSE IF find_pending_request(capability_name, email) = <<>>
    THEN Raise("reject", 404,
               "Pending registration request not found")
    ELSE /\ pending_registration_requests' =
                ListRemove(pending_registration_requests,
                           find_pending_request(capability_name, email)[1])
         /\ last' = Response("reject", 200, "Rejected")
         /\ UNCHANGED <<capabilities, session, inflight>>

\* A listing that shows every practice lead every request.
visible_requests_all(user) == pending_registration_requests

\* A listing that treats "*" as the name of a practice area.
visible_requests_no_wildcard(user) ==
    SelectSeq(pending_registration_requests,
              LAMBDA req :
                  /\ req.capability_name \in DOMAIN capabilities
                  /\ capabilities[req.capability_name].practice_area
                         \in user.practice_areas)

\* Lines 350-359 of get_registration_requests: the requests a practice lead
\* is shown (a request of an unknown capability has practice area None).
visible_requests(user) ==
    IF "*" \in user.practice_areas THEN pending_registration_requests
    ELSE SelectSeq(pending_registration_requests,
                   LAMBDA req :
                       /\ req.capability_name \in DOMAIN capabilities
                       /\ capabilities[req.capability_name].practice_area
                              \in user.practice_areas)

get_registration_requests(c) ==
    IF require_practice_lead(c) # 0
    THEN Raise("list", require_practice_lead(c),
               RequirePracticeLeadDetail(require_practice_lead(c)))
    ELSE /\ last' = ResponseWith("list", 200, "", visible_requests(SessionUser(c)))
         /\ UNCHANGED <<capabilities, pending_registration_requests, session, inflight>>

Next ==
    \E c \in Clients :
        \/ \E username \in UsernameInputs, password \in PasswordInputs :
               login(c, username, password)
        \/ logout(c)
        \/ get_registration_requests(c)
        \/ \E capability_name \in CapabilityInputs, email \in EmailInputs :
               register_for_capability(c, capability_name, email)
        \/ \E capability_name \in CapabilityInputs, email \in EmailInputs :
               unregister_from_capability(c, capability_name, email)
        \/ \E capability_name \in CapabilityInputs, email \in EmailInputs :
               approve_registration_request(c, capability_name, email)
        \/ \E capability_name \in CapabilityInputs, email \in EmailInputs :
               reject_registration_request(c, capability_name, email)

Spec == Init /\ [][Next]_vars

(* ------------------ handlers as interleaved steps --------------------- *)

\* The handlers are plain def functions, which the framework runs in a
\* thread pool; nothing in them takes a lock. A thread can be preempted
\* between a read of the rosters or the pending list and the write that
\* follows it, so each such read and write is a step of its own here.

\* Inputs of the interleaved calls: one capability, one email, a consultant
\* with that email in another spelling, and a practice lead; each logs in
\* with the right password.
ConcurrentUsernames == {"CAROL", "lead_all"}
ConcurrentPasswords == {"secret"}
ConcurrentCapabilities == {"Cloud Architecture"}
ConcurrentEmails == {"Carol@X.com"}

\* A thread in a handler: the next step, the arguments, the session user
\* read at the start and the pending request the lookup returned.
Running(pc, op, user, capability_name, email, pending_request) ==
    [pc |-> pc, op |-> op, user |-> user, capability_name |-> capability_name,
     email |-> email, pending_request |-> pending_request,
     status |-> 0, detail |-> ""]

\* The handler has returned or raised: the response waits to be sent.
Done(call, status, detail) ==
    [call EXCEPT !.pc = "done", !.status = status, !.detail = detail]

At(t, op, pc) == inflight[t].pc = pc /\ inflight[t].op = op

\* Lines 265-283 and 310-315 of register_for_capability: the checks up to
\* and including the roster check and the checks of the caller's role.
register_begin(t, c, capability_name, email) ==
    LET user == get_authenticated_user(c)
        call == Running("begin", "register", user, capability_name, email, <<>>)
    IN  /\ inflight[t] = Idle
        /\ inflight' = [inflight EXCEPT ![t] =
              IF user = {}
              THEN Done(call, 401, "Please log in first")
              ELSE IF capability_name \notin DOMAIN capabilities
              THEN Done(call, 404, "Capability not found")
              ELSE IF is_consultant_registered(capabilities[capability_name], email)
              THEN Done(call, 400,
                        "Consultant is already registered for this capability")
              ELSE IF SessionUser(c).role = "consultant"
              THEN IF ~requests_for_self(SessionUser(c), email)
                   THEN Done(call, 403,
                             "Consultants can only request registration for themselves")
                   ELSE [call EXCEPT !.pc = "find_pending_request"]
              ELSE IF SessionUser(c).role = "practice_lead"
              THEN IF ~has_practice_area_permission(SessionUser(c), capability_name)
                   THEN Done(call, 403,
                             "You do not have permissions for this capability's practice area")
                   ELSE [call EXCEPT !.pc = "append_consultant"]
              ELSE Done(call, 403, "Unsupported user role")]
        /\ UNCHANGED <<capabilities, pending_registration_requests, session, last>>

\* Lines 289-293: the consultant's lookup of a pending request.
register_find_pending_request(t) ==
    /\ At(t, "register", "find_pending_request")
    /\ inflight' = [inflight EXCEPT ![t] =
          IF find_pending_request(inflight[t].capability_name, inflight[t].email) # <<>>
          THEN Done(inflight[t], 400, "A pending registration request already exists")
          ELSE [inflight[t] EXCEPT !.pc = "append_request"]]
    /\ UNCHANGED <<capabilities, pending_registration_requests, session, last>>

\* Lines 295-308: the consultant's request is appended.
register_append_request(t) ==
    /\ At(t, "register", "append_request")
    /\ Len(pending_registration_requests) < MaxPending
    /\ \E now \in Timestamps :
           pending_registration_requests' =
               Append(pending_registration_requests,
                      [capability_name |-> inflight[t].capability_name,
                       email |-> inflight[t].email,
                       requested_by |-> (CHOOSE user \in inflight[t].user : TRUE).username,
                       created_at |-> now])
    /\ inflight' = [inflight EXCEPT ![t] =
                       Done(inflight[t], 200, "Registration request submitted")]
    /\ UNCHANGED <<capabilities, session, last>>

\* Lines 317-318: the practice lead's append to the roster.
register_append_consultant(t) ==
    /\ At(t, "register", "append_consultant")
    /\ Len(capabilities[inflight[t].capability_name].consultants) < MaxRoster
    /\ capabilities' =
           [capabilities EXCEPT ![inflight[t].capability_name].consultants =
                append_consultant(capabilities[inflight[t].capability_name],
                                  inflight[t].email)]
    /\ inflight' = [inflight EXCEPT ![t] = Done(inflight[t], 200, "Registered")]
    /\ UNCHANGED <<pending_registration_requests, session, last>>

\* Lines 364-377 of approve_registration_request and 389-402 of
\* reject_registration_request: the checks and the lookup of the pending
\* request, which the thread keeps in pending_request.
lookup_pending_request(t, c, op, capability_name, email, next_pc) ==
    LET call == Running("begin", op, get_authenticated_user(c),
                        capability_name, email, <<>>)
    IN  /\ inflight[t] = Idle
        /\ inflight' = [inflight EXCEPT ![t] =
              IF require_practice_lead(c) # 0
              THEN Done(call, require_practice_lead(c),
                        RequirePracticeLeadDetail(require_practice_lead(c)))
              ELSE IF capability_name \notin DOMAIN capabilities
              THEN Done(call, 404, "Capability not found")
              ELSE IF ~has_practice_area_permission(SessionUser(c), capability_name)
              THEN Done(call, 403,
                        "You do not have permissions for this capability's practice area")
              ELSE IF find_pending_request(capability_name, email) = <<>>
              THEN Done(call, 404, "Pending registration request not found")
              ELSE [call EXCEPT !.pc = next_pc,
                                !.pending_request =
                                    find_pending_request(capability_name, email)]]
        /\ UNCHANGED <<capabilities, pending_registration_requests, session, last>>

approve_begin(t, c, capability_name, email) ==
    lookup_pending_request(t, c, "approve", capability_name, email,
                           "is_consultant_registered")

\* Lines 379-380: the roster check of the approval.
approve_is_consultant_registered(t) ==
    /\ At(t, "approve", "is_consultant_registered")
    /\ inflight' = [inflight EXCEPT ![t].pc =
          IF is_consultant_registered(capabilities[inflight[t].capability_name],
                                      inflight[t].email)
          THEN "remove_request"
          ELSE "append_consultant"]
    /\ UNCHANGED <<capabilities, pending_registration_requests, session, last>>

\* Line 381: the approval's append to the roster.
approve_append_consultant(t) ==
    /\ At(t, "approve", "append_consultant")
    /\ Len(capabilities[inflight[t].capability_name].consultants) < MaxRoster
    /\ capabilities' =
           [capabilities EXCEPT ![inflight[t].capability_name].consultants =
                append_consultant(capabilities[inflight[t].capability_name],
                                  inflight[t].email)]
    /\ inflight' = [inflight EXCEPT ![t].pc = "remove_request"]
    /\ UNCHANGED <<pending_registration_requests, session, last>>

\* pending_registration_requests.remove(pending_request), lines 383 and
\* 404: list.remove raises ValueError when no element of the list equals
\* pending_request; nothing catches it and the call ends in status 500.
remove_request(t, op, message) ==
    /\ At(t, op, "remove_request")
    /\ IF \E i \in 1..Len(pending_registration_requests) :
              pending_registration_requests[i] = inflight[t].pending_request[1]
       THEN /\ pending_registration_requests' =
                   ListRemove(pending_registration_requests,
                              inflight[t].pending_request[1])
            /\ inflight' = [inflight EXCEPT ![t] = Done(inflight[t], 200, message)]
       ELSE /\ inflight' = [inflight EXCEPT ![t] =
                               Done(inflight[t], 500, "Internal Server Error")]
            /\ UNCHANGED pending_registration_requests
    /\ UNCHANGED <<capabilities, session, last>>

approve_remove_request(t) == remove_request(t, "approve", "Approved")

reject_begin(t, c, capability_name, email) ==
    lookup_pending_request(t, c, "reject", capability_name, email, "remove_request")

reject_remove_request(t) == remove_request(t, "reject", "Rejected")

\* The response is sent and the thread goes back to the pool.
respond(t) ==
    /\ inflight[t].pc = "done"
    /\ last' = Response(inflight[t].op, inflight[t].status, inflight[t].detail)
    /\ inflight' = [inflight EXCEPT ![t] = Idle]
    /\ UNCHANGED <<capabilities, pending_registration_requests, session>>

NextConc ==
    \/ \E c \in Clients, username \in ConcurrentUsernames,
          password \in ConcurrentPasswords :
           login(c, username, password)
    \/ \E c \in Clients : logout(c)
    \/ \E t \in Threads, c \in Clients, capability_name \in ConcurrentCapabilities,
          email \in ConcurrentEmails :
           \/ register_begin(t, c, capability_name, email)
           \/ approve_begin(t, c, capability_name, email)
           \/ reject_begin(t, c, capability_name, email)
    \/ \E t \in Threads :
           \/ register_find_pending_request(t)
           \/ register_append_request(t)
           \/ register_append_consultant(t)
           \/ approve_is_consultant_registered(t)
           \/ approve_append_consultant(t)
           \/ approve_remove_request(t)
           \/ reject_remove_request(t)
           \/ respond(t)

SpecConc == Init /\ [][NextConc]_vars

(* --------------------- vocabulary of the properties -------------------- *)

Roster(n) == capabilities[n].consultants

\* Positions of roster(n) that hold email, compared case-insensitively.
RosterPositions(n, email) ==
    {i \in 1..Len(Roster(n)) : lower(Roster(n)[i]) = lower(email)}

InRoster(n, email) == RosterPositions(n, email) # {}

\* Positions of the pending list that hold a request for (n, email).
PendingPositions(n, email) ==
    {i \in 1..Len(pending_registration_requests) :
        /\ pending_registration_requests[i].capability_name = n
        /\ lower(pending_registration_requests[i].email) = lower(email)}

HasPending(n, email) == PendingPositions(n, email) # {}

Authenticated(c) == session[c] # {}

\* canAdminister of the specification, section 4.1.
CanAdminister(user, n) ==
    /\ n \in DOMAIN capabilities
    /\ user.role = "practice_lead"
    /\ \/ "*" \in user.practice_areas
       \/ capabilities[n].practice_area \in user.practice_areas

\* The HTTP statuses the handlers raise, under the names of section 7.
Unauthorized == 401
Forbidden == 403
NotFound == 404
BadRequest == 400
ServerConfigError == 500

\* HTTP 409 Conflict, the status the name Conflict stands for; no handler
\* of app.py raises it.
IsConflict(status) == status = 409

\* Neither the rosters nor the pending list change.
DataUnchanged == UNCHANGED <<capabilities, pending_registration_requests>>

\* The step is a call of the handler named op (every handler records its
\* name in the response it leaves).
CallOf(op) == last'.op = op

(* ------------------------------- claims -------------------------------- *)

\* C1: in every reachable state no capability's roster holds two entries
\* that are equal when compared case-insensitively.
C1_RosterUnique ==
    \A n \in DOMAIN capabilities :
        \A i, j \in 1..Len(Roster(n)) :
            lower(Roster(n)[i]) = lower(Roster(n)[j]) => i = j

\* C1 witness: a request made as "Carol@X.com" was approved into a roster,
\* which then holds the three distinct consultants.
C1_Witness ==
    /\ last.op = "approve" /\ last.status = 200
    /\ Roster("Cloud Architecture") =
           <<"alice.smith@slalom.com", "bob.johnson@slalom.com", "Carol@X.com">>

\* C2: in every reachable state no (capability, email) pair is both in the
\* capability's roster and the subject of a pending request.
C2_NotRegisteredAndPending ==
    \A n \in DOMAIN capabilities, email \in EmailInputs :
        ~(InRoster(n, email) /\ HasPending(n, email))

\* C3: in every reachable state the pending list holds at most one request
\* per (capability_name, email), the email compared case-insensitively.
C3_PendingUnique ==
    \A i, j \in 1..Len(pending_registration_requests) :
        ( /\ pending_registration_requests[i].capability_name =
                 pending_registration_requests[j].capability_name
          /\ lower(pending_registration_requests[i].email) =
                 lower(pending_registration_requests[j].email) ) => i = j

\* C3 witness: a second request for a pair that already has one was refused.
C3_Witness ==
    /\ last.op = "register"
    /\ last.detail = "A pending registration request already exists"
    /\ Len(pending_registration_requests) = 2

\* C4: a register(C,E) call by a practice lead who may administer C, for E
\* not in roster(C), succeeds, appends exactly E to roster(C), and leaves
\* the pending list and every other roster unchanged.
C4_LeadRegisterAdds ==
    [][CallOf("register") =>
       \A c \in Clients, n \in CapabilityInputs, email \in EmailInputs :
          ( /\ Authenticated(c)
            /\ CanAdminister(SessionUser(c), n)
            /\ ~InRoster(n, email)
            /\ register_for_capability(c, n, email) )
          => ( /\ last'.status = 200
               /\ capabilities' =
                      [capabilities EXCEPT ![n].consultants = Append(@, email)]
               /\ InRoster(n, email)'
               /\ pending_registration_requests' = pending_registration_requests )
      ]_vars

\* C4 witness: a practice lead has just registered "Carol@X.com" directly.
C4_Witness ==
    /\ last.op = "register" /\ last.detail = "Registered"
    /\ Roster("Digital Strategy") =
           <<"liam.anderson@slalom.com", "noah.martinez@slalom.com", "Carol@X.com">>
    /\ pending_registration_requests = <<>>

C6_OtherEmailIsForbidden ==
    [][CallOf("register") =>
       \A c \in Clients, n \in CapabilityInputs, email \in EmailInputs :
          ( /\ Authenticated(c)
            /\ SessionUser(c).role = "consultant"
            /\ lower(SessionUser(c).email) # lower(email)
            /\ n \in DOMAIN capabilities
            /\ register_for_capability(c, n, email) )
          => ( /\ last'.status = Forbidden
               /\ pending_registration_requests' = pending_registration_requests )
      ]_vars

\* C6 amended: such a call creates no pending request and changes no
\* roster; it fails with Forbidden when E is not in roster(C), and with
\* status 400 (already registered) when E is in roster(C).
C6_OtherEmailRefused ==
    [][CallOf("register") =>
       \A c \in Clients, n \in CapabilityInputs, email \in EmailInputs :
          ( /\ Authenticated(c)
            /\ SessionUser(c).role = "consultant"
            /\ lower(SessionUser(c).email) # lower(email)
            /\ n \in DOMAIN capabilities
            /\ register_for_capability(c, n, email) )
          => ( /\ DataUnchanged
               /\ last'.status = IF InRoster(n, email) THEN BadRequest ELSE Forbidden )
      ]_vars

\* C6 witness: a consultant asked to register somebody else and was refused.
C6_Witness ==
    /\ last.op = "register"
    /\ last.detail = "Consultants can only request registration for themselves"
    /\ pending_registration_requests # <<>>

PendingWithout(n, email) ==
    SelectSeq(pending_registration_requests,
              LAMBDA request : ~( /\ request.capability_name = n
                                  /\ lower(request.email) = lower(email) ))

\* C8: with a pending request for (C,E), approve(C,E) by a practice lead who
\* may administer C succeeds whether or not E is in roster(C); afterwards
\* no request for (C,E) is pending, E is in roster(C) exactly once (roster
\* unchanged if E was there, else grown by the one entry E), and every
\* other request and roster is unchanged.
C8_ApproveMovesRequest ==
    [][CallOf("approve") =>
       \A c \in Clients, n \in CapabilityInputs, email \in EmailInputs :
          ( /\ Authenticated(c)
            /\ CanAdminister(SessionUser(c), n)
            /\ HasPending(n, email)
            /\ approve_registration_request(c, n, email) )
          => ( /\ last'.status = 200
               /\ ~HasPending(n, email)'
               /\ Cardinality(RosterPositions(n, email)') = 1
               /\ capabilities' =
                      [capabilities EXCEPT ![n].consultants =
                           IF InRoster(n, email) THEN @ ELSE Append(@, email)]
               /\ pending_registration_requests' = PendingWithout(n, email) )
      ]_vars

\* C8 witness: carol's request for Cloud Architecture was approved while
\* her request for Digital Strategy stays pending.
C8_Witness ==
    /\ last.op = "approve" /\ last.status = 200
    /\ InRoster("Cloud Architecture", "carol@x.com")
    /\ Len(pending_registration_requests) = 1
    /\ HasPending("Digital Strategy", "carol@x.com")

\* C9: with a pending request for (C,E), reject(C,E) by a practice lead who
\* may administer C removes exactly that request and leaves every roster
\* and every other pending request unchanged.
C9_RejectRemovesRequest ==
    [][CallOf("reject") =>
       \A c \in Clients, n \in CapabilityInputs, email \in EmailInputs :
          ( /\ Authenticated(c)
            /\ CanAdminister(SessionUser(c), n)
            /\ HasPending(n, email)
            /\ reject_registration_request(c, n, email) )
          => ( /\ last'.status = 200
               /\ capabilities' = capabilities
               /\ pending_registration_requests' = PendingWithout(n, email)
               /\ Len(pending_registration_requests') =
                      Len(pending_registration_requests) - 1 )
      ]_vars

\* C9 witness: one of two pending requests was rejected; the rosters are
\* the seeded ones.
C9_Witness ==
    /\ last.op = "reject" /\ last.status = 200
    /\ Len(pending_registration_requests) = 1
    /\ Len(Roster("Cloud Architecture")) = 2
    /\ Len(Roster("Digital Strategy")) = 2

\* The users a session can hold: the projections login stores.
SessionUsers ==
    {[username |-> load_user_credentials[i].username,
      email |-> load_user_credentials[i].email,
      role |-> load_user_credentials[i].role,
      practice_areas |-> load_user_credentials[i].practice_areas] :
        i \in 1..Len(load_user_credentials)}

\* has_practice_area_permission agrees with canAdminister of section 4.1.
PermissionIsCanAdminister ==
    \A user \in SessionUsers, n \in CapabilityInputs :
        has_practice_area_permission(user, n) <=> CanAdminister(user, n)

\* The step is the call (n, email) by client c of the handler that left
\* the response.
HandlerCall(c, n, email) ==
    CASE last'.op = "register" -> register_for_capability(c, n, email)
      [] last'.op = "unregister" -> unregister_from_capability(c, n, email)
      [] last'.op = "approve" -> approve_registration_request(c, n, email)
      [] last'.op = "reject" -> reject_registration_request(c, n, email)
      [] OTHER -> FALSE

\* C10 as stated: has_practice_area_permission is canAdminister; every
\* register, unregister, approve and reject call on an existing capability
\* by a practice lead who may not administer it fails with Forbidden and
\* changes nothing; a practice lead with "*" is never refused as Forbidden.
C10_NoPermissionIsForbidden ==
    /\ []PermissionIsCanAdminister
    /\ [][\A c \in Clients :
             (Authenticated(c) /\ SessionUser(c).role = "practice_lead") =>
             \A n \in DOMAIN capabilities, email \in EmailInputs :
                HandlerCall(c, n, email) =>
                   /\ "*" \in SessionUser(c).practice_areas
                      => last'.status # Forbidden
                   /\ ~CanAdminister(SessionUser(c), n)
                      => (last'.status = Forbidden /\ DataUnchanged)
         ]_vars

\* C10 amended: as stated, except that a register call for an email that
\* is already in roster(C) fails with status 400 (already registered)
\* instead of Forbidden; it too changes nothing.
C10_NoPermissionIsRefused ==
    /\ []PermissionIsCanAdminister
    /\ [][\A c \in Clients :
             (Authenticated(c) /\ SessionUser(c).role = "practice_lead") =>
             \A n \in DOMAIN capabilities, email \in EmailInputs :
                HandlerCall(c, n, email) =>
                   /\ "*" \in SessionUser(c).practice_areas
                      => last'.status # Forbidden
                   /\ ~CanAdminister(SessionUser(c), n)
                      => /\ DataUnchanged
                         /\ last'.status =
                                IF last'.op = "register" /\ InRoster(n, email)
                                THEN BadRequest ELSE Forbidden
         ]_vars

\* C10 witness: the Technology lead was refused the approval of a pending
\* request for a Strategy capability.
C10_Witness ==
    /\ last.op = "approve" /\ last.status = Forbidden
    /\ \E c \in Clients :
           Authenticated(c) /\ SessionUser(c).practice_areas = {"Technology"}
    /\ HasPending("Digital Strategy", "carol@x.com")

\* The sequence seq without its i-th element.
WithoutPosition(seq, i) ==
    [k \in 1..(Len(seq) - 1) |-> IF k < i THEN seq[k] ELSE seq[k + 1]]

\* C11: for an existing capability C and a practice lead who may administer
\* C, unregister(C,E) with E not in roster(C) fails with status 400 (not in
\* roster) and changes nothing; with E in roster(C) it succeeds, removes
\* exactly one roster entry, one that matches E, leaves the pending list
\* and the other rosters unchanged, and afterwards E is not in roster(C).
C11_UnregisterRemovesOne ==
    [][CallOf("unregister") =>
       \A c \in Clients, n \in CapabilityInputs, email \in EmailInputs :
          ( /\ Authenticated(c)
            /\ CanAdminister(SessionUser(c), n)
            /\ unregister_from_capability(c, n, email) )
          => IF ~InRoster(n, email)
             THEN /\ last'.status = BadRequest
                  /\ last'.detail = "Consultant is not registered for this capability"
                  /\ DataUnchanged
             ELSE /\ last'.status = 200
                  /\ \E i \in RosterPositions(n, email) :
                         capabilities' =
                             [capabilities EXCEPT ![n].consultants =
                                  WithoutPosition(@, i)]
                  /\ ~InRoster(n, email)'
                  /\ pending_registration_requests' = pending_registration_requests
      ]_vars

\* C11 witness: "Carol@X.com" was registered for Digital Strategy and alice
\* has just been unregistered from Cloud Architecture.
C11_Witness ==
    /\ last.op = "unregister" /\ last.status = 200
    /\ Roster("Cloud Architecture") = <<"bob.johnson@slalom.com">>
    /\ Roster("Digital Strategy") =
           <<"liam.anderson@slalom.com", "noah.martinez@slalom.com", "Carol@X.com">>

\* The pending requests whose capability has a practice area in areas.
PendingInAreas(areas) ==
    SelectSeq(pending_registration_requests,
              LAMBDA request :
                  /\ request.capability_name \in DOMAIN capabilities
                  /\ capabilities[request.capability_name].practice_area \in areas)

\* C12: List Pending Requests called by a practice lead returns all pending
\* requests when the caller's practice_areas contain "*", and otherwise
\* exactly the requests whose capability's practice_area is in the caller's
\* practice_areas; called by a consultant it fails with Forbidden; it never
\* changes rosters or the pending list.
C12_ListShowsOwnAreas ==
    [][CallOf("list") =>
       \A c \in Clients :
          get_registration_requests(c) =>
             /\ DataUnchanged
             /\ (Authenticated(c) /\ SessionUser(c).role = "consultant")
                => last'.status = Forbidden
             /\ (Authenticated(c) /\ SessionUser(c).role = "practice_lead")
                => /\ last'.status = 200
                   /\ last'.result =
                          IF "*" \in SessionUser(c).practice_areas
                          THEN pending_registration_requests
                          ELSE PendingInAreas(SessionUser(c).practice_areas)
      ]_vars

\* C12 witness: two requests are pending and the Technology lead is shown
\* the one for Cloud Architecture.
C12_Witness ==
    /\ last.op = "list" /\ last.status = 200
    /\ Len(pending_registration_requests) = 2
    /\ Len(last.result) = 1
    /\ last.result[1].capability_name = "Cloud Architecture"

\* The handlers that write the rosters or the pending list.
WritingHandlers == {"register", "unregister", "approve", "reject"}

\* C13: a register, unregister, approve or reject call that ends in an
\* error leaves all rosters and the pending list as they were.
C13_ErrorsChangeNothing ==
    [][(last'.op \in WritingHandlers /\ last'.status # 200) => DataUnchanged]_vars

\* C13 witness: an approval failed for want of a pending request while
\* other requests are pending and a roster has grown.
C13_Witness ==
    /\ last.op = "approve" /\ last.status = NotFound
    /\ last.detail = "Pending registration request not found"
    /\ pending_registration_requests # <<>>
    /\ Len(Roster("Cloud Architecture")) = 3

\* The step is a call by client c of a handler that needs a session.
SessionCall(c) ==
    \/ get_registration_requests(c)
    \/ \E n \in CapabilityInputs, email \in EmailInputs : HandlerCall(c, n, email)

\* C15: a client with no session gets Unauthorized from every register,
\* unregister, list, approve and reject call, with rosters and pending list
\* unchanged; a logout leaves the client without a session and succeeds
\* (changing nothing when there was none), and a client without a session
\* stays so until a login of its own succeeds.
C15_NoSessionIsUnauthorized ==
    [][\A c \in Clients :
          /\ (~Authenticated(c) /\ last'.op \notin {"login", "logout"} /\ SessionCall(c))
             => (last'.status = Unauthorized /\ DataUnchanged /\ session' = session)
          /\ (last'.op = "logout" /\ logout(c))
             => /\ last'.status = 200
                /\ ~Authenticated(c)'
                /\ DataUnchanged
                /\ ~Authenticated(c) => session' = session
          /\ (~Authenticated(c) /\ Authenticated(c)')
             => (last'.op = "login" /\ last'.status = 200)
      ]_vars

\* C15 witness: after a logout an approval was refused as Unauthorized
\* while a request is pending.
C15_Witness ==
    /\ last.op = "approve" /\ last.status = Unauthorized
    /\ \A c \in Clients : ~Authenticated(c)
    /\ pending_registration_requests # <<>>

\* The stored hash has four fields, the recognised algorithm tag and an
\* integer iteration count.
WellFormedAsClaimed(stored_hash) ==
    /\ Len(stored_hash) = 4
    /\ stored_hash[1] = "pbkdf2_sha256"
    /\ int(stored_hash[2]) # <<>>

\* The digest recomputed from the password is not the stored digest.
DigestDiffers(stored_hash, password) ==
    pbkdf2_hmac(password, stored_hash[3], int(stored_hash[2])[1]) # stored_hash[4]

\* The logins, as <<username, password>>, that satisfy P.
LoginsWhere(P(_, _)) ==
    UNION {IF P(in[1], in[2]) THEN {in} ELSE {} : in \in UsernameInputs \X PasswordInputs}

\* The logins of a known user with a hash well-formed as claimed and a
\* password whose digest differs.
WrongPasswordLogins ==
    LoginsWhere(LAMBDA username, password :
        LET user == get_user_by_username(username)
        IN  /\ user # <<>>
            /\ WellFormedAsClaimed(user[1].password_hash)
            /\ DigestDiffers(user[1].password_hash, password))

\* Those of them whose stored hash moreover has an iteration count of at
\* least 1 and an ASCII digest.
WrongPasswordLoginsOnUsableHash ==
    LoginsWhere(LAMBDA username, password :
        LET user == get_user_by_username(username)
        IN  /\ <<username, password>> \in WrongPasswordLogins
            /\ int(user[1].password_hash[2])[1] >= 1
            /\ user[1].password_hash[4].ascii)

\* The logins with a username no user has.
UnknownUserLogins ==
    LoginsWhere(LAMBDA username, password : get_user_by_username(username) = <<>>)

AppendsOwnRequest(user) ==
    /\ Len(pending_registration_requests') = Len(pending_registration_requests) + 1
    /\ SubSeq(pending_registration_requests', 1, Len(pending_registration_requests))
           = pending_registration_requests
    /\ lower(pending_registration_requests'[Len(pending_registration_requests')].email)
           = lower(user.email)

\* C17: every step that changes the roster of a capability is a call on
\* that capability by an authenticated practice lead whose practice_areas
\* hold "*" or the capability's practice_area; a call by a consultant
\* changes no roster, and either leaves the pending list as it was or
\* appends one request whose email is the consultant's own, compared
\* case-insensitively.
C17_OnlyLeadsChangeRosters ==
    [][ /\ \A n \in DOMAIN capabilities :
              Roster(n)' # Roster(n)
              => \E c \in Clients, email \in EmailInputs :
                    /\ Authenticated(c)
                    /\ SessionUser(c).role = "practice_lead"
                    /\ \/ "*" \in SessionUser(c).practice_areas
                       \/ capabilities[n].practice_area \in SessionUser(c).practice_areas
                    /\ HandlerCall(c, n, email)
        /\ \A c \in Clients :
              ( /\ Authenticated(c)
                /\ SessionUser(c).role = "consultant"
                /\ last'.op \notin {"login", "logout"}
                /\ SessionCall(c) )
              => /\ capabilities' = capabilities
                 /\ \/ pending_registration_requests' = pending_registration_requests
                    \/ AppendsOwnRequest(SessionUser(c))
      ]_vars

\* C17 witness: a practice lead of one practice area has taken a seeded
\* consultant off a roster of that area while a consultant's own request is
\* pending.
C17_Witness ==
    /\ last.op = "unregister" /\ last.status = 200
    /\ \E c \in Clients : Authenticated(c) /\ SessionUser(c).username = "lead_tech"
    /\ Roster("Cloud Architecture") = <<"bob.johnson@slalom.com">>
    /\ Len(pending_registration_requests) = 1
    /\ pending_registration_requests[1].email = "Carol@X.com"

\* C18: a register call by any authenticated caller, and an unregister,
\* approve or reject call by any practice lead, that names a capability not
\* in the registry fails with NotFound (so neither Forbidden nor Conflict)
\* and changes nothing.
C18_UnknownCapabilityIsNotFound ==
    [][last'.op \in WritingHandlers =>
       \A c \in Clients, n \in CapabilityInputs \ DOMAIN capabilities,
          email \in EmailInputs :
          ( /\ Authenticated(c)
            /\ last'.op = "register" \/ SessionUser(c).role = "practice_lead"
            /\ HandlerCall(c, n, email) )
          => /\ last'.status = NotFound
             /\ ~IsConflict(last'.status)
             /\ last'.status # Forbidden
             /\ DataUnchanged
      ]_vars

\* C18 witness: a practice lead of one practice area was told NotFound for
\* a rejection while a request is pending.
C18_Witness ==
    /\ last.op = "reject" /\ last.status = NotFound
    /\ last.detail = "Capability not found"
    /\ \E c \in Clients : Authenticated(c) /\ SessionUser(c).username = "lead_tech"
    /\ pending_registration_requests # <<>>

\* The pending requests whose capability user may administer.
AdministeredRequests(user) ==
    SelectSeq(pending_registration_requests,
              LAMBDA request : CanAdminister(user, request.capability_name))

\* C20: in every reachable state every pending request names a capability
\* of the registry, and for every practice lead of the credential store the
\* list of pending requests the lead is shown holds exactly the requests
\* whose capability the lead may administer.
C20_ShownIffAdministered ==
    /\ \A i \in 1..Len(pending_registration_requests) :
          pending_registration_requests[i].capability_name \in DOMAIN capabilities
    /\ \A user \in SessionUsers :
          user.role = "practice_lead"
          => visible_requests(user) = AdministeredRequests(user)

\* C20 witness: requests are pending for capabilities of two practice
\* areas, so a practice lead of one area is shown one and not the other.
C20_Witness ==
    /\ Len(pending_registration_requests) = 2
    /\ pending_registration_requests[1].capability_name = "Digital Strategy"
    /\ pending_registration_requests[2].capability_name = "Cloud Architecture"

\* C14: with the membership checks of register and approve and the appends
\* that follow them as separate interleaved steps, no reachable state has
\* an email twice in the roster of a capability or two pending requests for
\* the same capability and email (emails compared case-insensitively).
C14_NoDuplicateUnderInterleaving ==
    \A n \in DOMAIN capabilities, email \in ConcurrentEmails :
        /\ Cardinality(RosterPositions(n, email)) <= 1
        /\ Cardinality(PendingPositions(n, email)) <= 1

\* C19: with the lookup of the pending request and its removal as separate
\* interleaved steps, each of the approve and reject calls that looked up
\* the same pending request (C,E) ends either in success, having removed
\* the request, or in NotFound, a concurrent call having removed it first;
\* none of them ends in a status outside the taxonomy.
C19_OneRemovesOtherNotFound ==
    \A t \in Threads :
        ( /\ inflight[t].pc = "done"
          /\ inflight[t].op \in {"approve", "reject"}
          /\ inflight[t].pending_request # <<>> )
        => inflight[t].status \in {200, NotFound}

====
